---- MODULE Spec2Model ----
(***************************************************************************)
(* Model of result::Result<T, E> (src/result/result.h, first revision,     *)
(* lines 1-608): the tagged storage details::ResultStorage and the Result  *)
(* facade built on it.                                                     *)
(*                                                                         *)
(* A program is a handful of named Result variables (slots) of one         *)
(* instantiation Result<T, E>.  Payload values are small integers; value 0 *)
(* is the default-constructed / moved-from ("empty") value of a payload    *)
(* type.  Two properties of the instantiation are fixed at start-up:       *)
(*   TIsUnit    - T is unit_t, so construction of the Ok payload is        *)
(*                skipped (if constexpr at lines 120, 132, 141);           *)
(*   nontrivial - the payload types have a non-trivial move constructor    *)
(*                (std::string, line 51/67 move), so a move empties its    *)
(*                source; otherwise (int) a move is a copy.                *)
(* ctors/dtors count the payload objects constructed into / destroyed in   *)
(* Result storage.  Wrapper temporaries (Ok<T>, Err<E>, by-value           *)
(* parameters) are automatic objects created and destroyed inside one      *)
(* call, so they never change the difference and are not counted.          *)
(***************************************************************************)
EXTENDS Integers, FiniteSets, Sequences, TLC

VARIABLES res, ctors, dtors, misuse, status, diag, ret, TIsUnit, nontrivial

vars == <<res, ctors, dtors, misuse, status, diag, ret, TIsUnit, nontrivial>>

\* ----- bounds -----
NumSlots == 2
MaxVal == 1
MaxCount == 3

Slots == 1..NumSlots
Vals == 0..MaxVal
\* values of type T: unit_t has the single value {}
TVals == IF TIsUnit THEN {0} ELSE Vals

\* ----- ResultKind, lines 23-26 -----
KindOk == "Ok"
KindErr == "Err"

\* a Result variable that is not (or no longer) constructed
NoResult == [tag |-> "none", val |-> 0, live |-> "none"]

\* the value a moved-from payload is left with (std::string: empty; int: unchanged)
MovedFromVal(v) == IF nontrivial THEN 0 ELSE v

\* ----- details::ResultStorage -----

\* ResultStorage(Ok<T> val), lines 119-124
StorageFromOk(v) ==
    IF TIsUnit
    THEN [tag |-> KindOk, val |-> 0, live |-> "none"]
    ELSE [tag |-> KindOk, val |-> v, live |-> "T"]

\* ResultStorage(Err<E> val), lines 125-128
StorageFromErr(e) == [tag |-> KindErr, val |-> e, live |-> "E"]

\* kind(), line 189
StorageKind(s) == s.tag

\* get<U>(), lines 173-187: reinterpret the bytes as U, whatever is alive there
StorageGet(s) == s.val

\* whether get<U>() names the payload object that is alive in the storage
GetIsLive(s, U) == s.live = U

\* the alternative the discriminant names
TagType(s) == IF StorageKind(s) = KindOk THEN "T" ELSE "E"

\* number of payload constructor calls made by constructing storage s
CtorCalls(s) == IF s.live = "none" THEN 0 ELSE 1

\* a copy constructor that always placement-constructs the T alternative
StorageCopyAlwaysT(rhs) ==
    [tag |-> StorageKind(rhs), val |-> StorageGet(rhs), live |-> "T"]

\* ResultStorage(const ResultStorage&), lines 130-138; the move constructor,
\* lines 139-147, builds the same new object
StorageCopy(rhs) ==
    IF StorageKind(rhs) = KindOk
    THEN IF TIsUnit
         THEN [tag |-> KindOk, val |-> 0, live |-> "none"]
         ELSE [tag |-> KindOk, val |-> StorageGet(rhs), live |-> "T"]
    ELSE [tag |-> KindErr, val |-> StorageGet(rhs), live |-> "E"]

\* the copy and move constructors read rhs.get<U>() for the U rhs.m_tag names
\* (none for an Ok unit_t), lines 131-137, 140-146
CopyMisuse(rhs) ==
    IF StorageKind(rhs) = KindOk /\ TIsUnit THEN {}
    ELSE IF GetIsLive(rhs, TagType(rhs)) THEN {} ELSE {"get"}

\* what the move constructor / a move-out leaves in its source, lines 139-147, 183-187
StorageMovedFrom(rhs) ==
    IF StorageKind(rhs) = KindOk /\ TIsUnit
    THEN rhs
    ELSE [rhs EXCEPT !.val = MovedFromVal(rhs.val)]

\* destroy(), lines 194-203: the destructor of the alternative the tag names
\* is invoked on the storage; unit_t's destructor is not an instrumented one
DtorCalls(s) == IF StorageKind(s) = KindOk /\ TIsUnit THEN 0 ELSE 1
DestroyMisuse(s) == IF GetIsLive(s, TagType(s)) THEN {} ELSE {"dtor"}
\* get<U>() for the U the tag names, on storage where no such object is alive
GetMisuse(s) == IF GetIsLive(s, TagType(s)) THEN {} ELSE {"get"}

\* an is_err() that compares against the wrong enumerator
is_err_wrong_kind(r) == StorageKind(r) = KindOk

\* ----- Result facade: state queries, lines 246-252 -----
is_ok(r) == StorageKind(r) = KindOk
is_err(r) == StorageKind(r) = KindErr
kind(r) == StorageKind(r)
operator_bool(r) == is_ok(r)

Constructed(i) == res[i] # NoResult

\* the last call's return value, as its caller sees it: op the member called,
\* i the Result it was called on, (form, j, v) the other operand (a Result
\* variable j, or a wrapper Ok(v) / Err(v)), b a bool result, (has, x) an
\* optional / reference / value result, calls the number of invocations of a
\* supplied function, term whether the call ended in details::terminate,
\* dangling whether the returned reference names an object already destroyed,
\* taken whether the caller move-constructed a value from a returned T&&,
\* msg the message handed to expect(), src the kind and payload of *this when
\* a combinator was called, given the combinator's operand (the Result passed
\* to and_ / or_, or what the supplied function returns for src's payload),
\* passed the argument the supplied function was invoked with, copies the
\* number of payload copy-constructions the call made
NoCall == [tag |-> "none", val |-> 0]
NoRet == [op |-> "none", i |-> 0, form |-> "none", j |-> 0, v |-> 0, b |-> FALSE,
          has |-> FALSE, x |-> 0, calls |-> 0, term |-> FALSE, dangling |-> FALSE,
          taken |-> FALSE, msg |-> "", src |-> NoCall, given |-> NoCall,
          passed |-> 0, copies |-> 0]

Running == status = "running"
\* the caller is between two statements: no returned value is pending
Ready == Running /\ ret = NoRet

Init ==
    /\ res = [i \in Slots |-> NoResult]
    /\ ctors = 0
    /\ dtors = 0
    /\ misuse = {}
    /\ status = "running"
    /\ diag = ""
    /\ ret = NoRet
    /\ TIsUnit \in BOOLEAN
    /\ nontrivial \in BOOLEAN

\* Result(Ok<T> value), line 231 (and Result(ok_tag_t, args...), line 235)
ConstructOk(i, v) ==
    /\ Ready /\ ~Constructed(i) /\ ctors < MaxCount
    /\ res' = [res EXCEPT ![i] = StorageFromOk(v)]
    /\ ctors' = ctors + CtorCalls(StorageFromOk(v))
    /\ UNCHANGED <<ret, dtors, misuse, status, diag, TIsUnit, nontrivial>>

\* Result(Err<E> value), line 232 (and Result(err_tag_t, args...), line 237)
ConstructErr(i, e) ==
    /\ Ready /\ ~Constructed(i) /\ ctors < MaxCount
    /\ res' = [res EXCEPT ![i] = StorageFromErr(e)]
    /\ ctors' = ctors + CtorCalls(StorageFromErr(e))
    /\ UNCHANGED <<ret, dtors, misuse, status, diag, TIsUnit, nontrivial>>

\* a copy constructor that takes the payload out of its source
CopyConstructSteals(i, j) ==
    /\ Ready /\ ~Constructed(i) /\ Constructed(j) /\ ctors < MaxCount
    /\ res' = [res EXCEPT ![i] = StorageCopy(res[j]), ![j] = StorageMovedFrom(res[j])]
    /\ ctors' = ctors + CtorCalls(StorageCopy(res[j]))
    /\ misuse' = misuse \cup CopyMisuse(res[j])
    /\ UNCHANGED <<ret, dtors, status, diag, TIsUnit, nontrivial>>

\* Result(), lines 225-230: the constructor has no initialiser for m_storage,
\* so it needs ResultStorage(), which line 117 deletes: a program that
\* default-constructs a Result is ill-formed and every compiler rejects it;
\* no Result object comes to exist
DefaultConstructOutcomes == {"rejected"}
DefaultConstruct(i) ==
    /\ Ready /\ ~Constructed(i)
    /\ status' \in DefaultConstructOutcomes
    /\ ret' = [NoRet EXCEPT !.op = "Result", !.i = i]
    /\ UNCHANGED <<res, ctors, dtors, misuse, diag, TIsUnit, nontrivial>>

\* Result(const Result&) = default, line 239; clone(), line 244
CopyConstruct(i, j) ==
    /\ Ready /\ ~Constructed(i) /\ Constructed(j) /\ ctors < MaxCount
    /\ res' = [res EXCEPT ![i] = StorageCopy(res[j])]
    /\ ctors' = ctors + CtorCalls(StorageCopy(res[j]))
    /\ misuse' = misuse \cup CopyMisuse(res[j])
    /\ UNCHANGED <<ret, dtors, status, diag, TIsUnit, nontrivial>>

\* a move constructor that copies and leaves its source as it was
MoveConstructCopies(i, j) ==
    /\ Ready /\ ~Constructed(i) /\ Constructed(j) /\ ctors < MaxCount
    /\ res' = [res EXCEPT ![i] = StorageCopy(res[j])]
    /\ ctors' = ctors + CtorCalls(StorageCopy(res[j]))
    /\ misuse' = misuse \cup CopyMisuse(res[j])
    /\ UNCHANGED <<ret, dtors, status, diag, TIsUnit, nontrivial>>

\* Result(Result&&) = default, line 241
MoveConstruct(i, j) ==
    /\ Ready /\ ~Constructed(i) /\ Constructed(j) /\ ctors < MaxCount
    /\ res' = [res EXCEPT ![i] = StorageCopy(res[j]), ![j] = StorageMovedFrom(res[j])]
    /\ ctors' = ctors + CtorCalls(StorageCopy(res[j]))
    /\ misuse' = misuse \cup CopyMisuse(res[j])
    /\ UNCHANGED <<ret, dtors, status, diag, TIsUnit, nontrivial>>

\* ~ResultStorage(), line 191
Destroy(i) ==
    /\ Ready /\ Constructed(i) /\ dtors < MaxCount
    /\ res' = [res EXCEPT ![i] = NoResult]
    /\ dtors' = dtors + DtorCalls(res[i])
    /\ misuse' = misuse \cup DestroyMisuse(res[i])
    /\ UNCHANGED <<ret, ctors, status, diag, TIsUnit, nontrivial>>

\* ResultStorage::operator=(const ResultStorage&), lines 148-159, through
\* Result::operator=(const Result&) = default, line 240: destroy(), copy the
\* tag, then ASSIGN rhs's payload to the storage, where no object is alive any
\* more; no payload is constructed.  Assigning to a destroyed object and
\* flowing off the end of a non-void function (no return statement) are
\* undefined: the stored value of a non-trivial payload is any value, and the
\* call either returns or crashes the process.  A compiler that diagnoses the
\* missing return statement of the constexpr function (g++ -std=c++17 does)
\* rejects the program that instantiates the assignment.
AssignedVals(rhs) == IF nontrivial THEN Vals ELSE {StorageGet(rhs)}
AssignOutcomes == {"running", "crashed", "rejected"}

CopyAssign(i, j) ==
    /\ Ready /\ Constructed(i) /\ Constructed(j) /\ dtors < MaxCount
    /\ status' \in AssignOutcomes
    /\ IF status' = "rejected"
       THEN UNCHANGED <<res, dtors, misuse>>
       ELSE /\ \E nv \in AssignedVals(res[j]) :
                 res' = [res EXCEPT ![i] = [tag |-> res[j].tag,
                                            val |-> IF is_ok(res[j]) /\ TIsUnit THEN 0 ELSE nv,
                                            live |-> "none"]]
            /\ dtors' = dtors + DtorCalls(res[i])
            /\ misuse' = misuse \cup DestroyMisuse(res[i]) \cup {"assign"}
                    \cup (IF i = j \/ ~GetIsLive(res[j], TagType(res[j])) THEN {"get"} ELSE {})
    /\ UNCHANGED <<ret, ctors, diag, TIsUnit, nontrivial>>

\* ResultStorage::operator=(ResultStorage&&), lines 160-171, through
\* Result::operator=(Result&&) = default, line 242
MoveAssign(i, j) ==
    /\ Ready /\ Constructed(i) /\ Constructed(j) /\ i # j /\ dtors < MaxCount
    /\ status' \in AssignOutcomes
    /\ IF status' = "rejected"
       THEN UNCHANGED <<res, dtors, misuse>>
       ELSE /\ \E nv \in AssignedVals(res[j]) :
                 res' = [res EXCEPT ![i] = [tag |-> res[j].tag,
                                            val |-> IF is_ok(res[j]) /\ TIsUnit THEN 0 ELSE nv,
                                            live |-> "none"],
                                    ![j] = StorageMovedFrom(res[j])]
            /\ dtors' = dtors + DtorCalls(res[i])
            /\ misuse' = misuse \cup DestroyMisuse(res[i]) \cup {"assign"}
                    \cup (IF ~GetIsLive(res[j], TagType(res[j])) THEN {"get"} ELSE {})
    /\ UNCHANGED <<ret, ctors, diag, TIsUnit, nontrivial>>

\* ----- details::terminate, lines 102-105: write msg to cerr, std::terminate -----
\* a terminate() that stops the process without the write of line 103
TerminateSilent(msg) == status' = "terminated" /\ UNCHANGED diag
Terminate(msg) == status' = "terminated" /\ diag' = msg
NoTerminate == UNCHANGED <<status, diag>>

\* the messages of lines 340, 352, 365 (written here without their backquotes)
MsgTryErr == "Called try_err on an Ok value"
MsgTryOk == "Called try_ok on an Err value"
MsgUnwrap == "Called unwrap on a Err value"

\* a call that returns a value to its caller and changes nothing else
Observe(r, mis) ==
    /\ ret' = r
    /\ misuse' = misuse \cup mis
    /\ UNCHANGED <<res, ctors, dtors, status, diag, TIsUnit, nontrivial>>

\* a call that either returns r or, when r.term, ends in terminate(msg)
ObserveOrTerminate(r, msg, mis) ==
    /\ ret' = r
    /\ IF r.term THEN Terminate(msg) /\ UNCHANGED misuse
                 ELSE NoTerminate /\ misuse' = misuse \cup mis
    /\ UNCHANGED <<res, ctors, dtors, TIsUnit, nontrivial>>

\* ----- equality, lines 254-291 -----
\* operator==(const Ok<T>&), lines 254-261
EqOk(r, v) ==
    IF TIsUnit THEN TRUE
    ELSE kind(r) = KindOk /\ StorageGet(r) = v
\* operator==(const Err<E>&), lines 265-268
EqErr(r, e) == kind(r) = KindErr /\ StorageGet(r) = e
\* an operator== that forgets the discriminant and compares the bytes only
EqResultNoKind(a, b) == StorageGet(a) = StorageGet(b)
\* operator==(const Result<T, E>&), lines 272-288
EqResult(a, b) ==
    IF kind(a) # kind(b) THEN FALSE
    ELSE IF kind(a) = KindOk
         THEN IF TIsUnit THEN TRUE ELSE StorageGet(a) = StorageGet(b)
         ELSE StorageGet(a) = StorageGet(b)
\* operator!=, lines 262-264, 269-271, 289-291
NeOk(r, v) == ~EqOk(r, v)
NeErr(r, e) == ~EqErr(r, e)
NeResult(a, b) == ~EqResult(a, b)

\* a try_ok() without its is_ok() check
TryOkNoCheck(r) == [term |-> FALSE, val |-> StorageGet(r)]
\* ----- try_ok / try_err, lines 338-361: [term, val] -----
TryOk(r) == [term |-> ~is_ok(r), val |-> StorageGet(r)]
TryErr(r) == [term |-> ~is_err(r), val |-> StorageGet(r)]

\* ----- ordering of two Results, lines 481-512: [term, b] -----
\* operator<, lines 481-491
Lt(a, b) ==
    IF is_err(a) /\ is_err(b) THEN [term |-> FALSE, b |-> FALSE]
    ELSE IF is_err(a) THEN [term |-> FALSE, b |-> TRUE]
    ELSE IF TryOk(a).term \/ TryOk(b).term THEN [term |-> TRUE, b |-> FALSE]
    ELSE [term |-> FALSE, b |-> TryOk(a).val < TryOk(b).val]
\* operator<=, lines 492-502
Le(a, b) ==
    IF is_err(a) /\ is_err(b) THEN [term |-> FALSE, b |-> TRUE]
    ELSE IF is_err(a) THEN [term |-> FALSE, b |-> TRUE]
    ELSE IF TryOk(a).term \/ TryOk(b).term THEN [term |-> TRUE, b |-> FALSE]
    ELSE [term |-> FALSE, b |-> TryOk(a).val <= TryOk(b).val]
\* operator>, lines 503-507
Gt(a, b) == IF Le(a, b).term THEN Le(a, b) ELSE [term |-> FALSE, b |-> ~Le(a, b).b]
\* operator>=, lines 508-512
Ge(a, b) == IF Lt(a, b).term THEN Lt(a, b) ELSE [term |-> FALSE, b |-> ~Lt(a, b).b]

\* ----- the right-hand operand of a comparison -----
\* a Result variable, or a wrapper Ok(v) / Err(e)
Operands ==
    [form : {"result"}, j : {j \in Slots : Constructed(j)}, v : {0}]
    \cup [form : {"ok"}, j : {0}, v : TVals]
    \cup [form : {"err"}, j : {0}, v : Vals]
\* lines 514-545: a wrapper operand is converted with Result<T2, E>(std::move(rhs))
OperandResult(o) ==
    IF o.form = "result" THEN res[o.j]
    ELSE IF o.form = "ok" THEN StorageFromOk(o.v)
    ELSE StorageFromErr(o.v)

Eq(r, o) ==
    IF o.form = "result" THEN EqResult(r, res[o.j])
    ELSE IF o.form = "ok" THEN EqOk(r, o.v)
    ELSE EqErr(r, o.v)

\* the payloads operator== reads: both sides' when the kinds agree (none of unit_t)
EqMisuse(r, o) ==
    IF TIsUnit /\ (o.form = "ok" \/ (o.form = "result" /\ is_ok(r))) THEN {}
    ELSE IF kind(r) # kind(OperandResult(o)) THEN {}
    ELSE GetMisuse(r) \cup GetMisuse(OperandResult(o))
\* the payloads the ordering operators read through try_ok()
OrderMisuse(r, o) ==
    IF is_ok(r) /\ is_ok(OperandResult(o)) THEN GetMisuse(r) \cup GetMisuse(OperandResult(o)) ELSE {}

CallRet(op, i, o) == [NoRet EXCEPT !.op = op, !.i = i, !.form = o.form, !.j = o.j, !.v = o.v]

\* r == rhs
CallEq(i, o) ==
    /\ Ready /\ Constructed(i)
    /\ Observe([CallRet("eq", i, o) EXCEPT !.b = Eq(res[i], o)], EqMisuse(res[i], o))
\* r != rhs
CallNe(i, o) ==
    /\ Ready /\ Constructed(i)
    /\ Observe([CallRet("ne", i, o) EXCEPT !.b = ~Eq(res[i], o)], EqMisuse(res[i], o))

\* the ordering operators need operator< on T, which unit_t does not have
Order(op, i, o, out) ==
    /\ Ready /\ Constructed(i) /\ ~TIsUnit
    /\ ObserveOrTerminate([CallRet(op, i, o) EXCEPT !.b = out.b, !.term = out.term], MsgTryOk,
                          OrderMisuse(res[i], o))
CallLt(i, o) == Order("lt", i, o, Lt(res[i], OperandResult(o)))
CallLe(i, o) == Order("le", i, o, Le(res[i], OperandResult(o)))
CallGt(i, o) == Order("gt", i, o, Gt(res[i], OperandResult(o)))
CallGe(i, o) == Order("ge", i, o, Ge(res[i], OperandResult(o)))

\* is_ok(), is_err(), operator bool(), lines 246-252
CallIsOk(i) ==
    /\ Ready /\ Constructed(i)
    /\ Observe([NoRet EXCEPT !.op = "is_ok", !.i = i, !.b = is_ok(res[i])], {})
CallIsErr(i) ==
    /\ Ready /\ Constructed(i)
    /\ Observe([NoRet EXCEPT !.op = "is_err", !.i = i, !.b = is_err(res[i])], {})
CallBool(i) ==
    /\ Ready /\ Constructed(i)
    /\ Observe([NoRet EXCEPT !.op = "bool", !.i = i, !.b = operator_bool(res[i])], {})

\* ----- safe accessors -----
\* ok_unchecked() / err_unchecked(), lines 394-407
ok_unchecked(r) == StorageGet(r)
err_unchecked(r) == StorageGet(r)

\* an ok() that tests is_err() instead of is_ok()
OkOptWrongTest(r) ==
    IF StorageKind(r) = KindErr THEN [has |-> TRUE, x |-> StorageGet(r)] ELSE [has |-> FALSE, x |-> 0]
\* ok(), lines 295-315: an optional holding (a reference to, or for the &&
\* overload a copy of) the payload, or nullopt
OkOpt(r) == IF is_ok(r) THEN [has |-> TRUE, x |-> ok_unchecked(r)] ELSE [has |-> FALSE, x |-> 0]
\* err(), lines 316-336
ErrOpt(r) == IF is_err(r) THEN [has |-> TRUE, x |-> err_unchecked(r)] ELSE [has |-> FALSE, x |-> 0]

\* ok() const& / ok() &, lines 295-308
CallOk(i) ==
    /\ Ready /\ Constructed(i)
    /\ Observe([NoRet EXCEPT !.op = "ok", !.i = i, !.has = OkOpt(res[i]).has, !.x = OkOpt(res[i]).x],
               IF is_ok(res[i]) THEN GetMisuse(res[i]) ELSE {})
\* copy-constructing the payload of r: one call of the copy constructor of
\* the stored alternative (unit_t is an empty tag, not a payload)
PayloadCopies(r) == IF StorageKind(r) = KindOk /\ TIsUnit THEN 0 ELSE 1

\* ok() &&, lines 309-315: *this is an lvalue inside the member, so
\* ok_unchecked() & is chosen and optional<T> is copy-constructed from T&
CallOkRvalue(i) ==
    /\ Ready /\ Constructed(i)
    /\ Observe([NoRet EXCEPT !.op = "ok_rvalue", !.i = i, !.has = OkOpt(res[i]).has, !.x = OkOpt(res[i]).x,
                             !.copies = IF is_ok(res[i]) THEN PayloadCopies(res[i]) ELSE 0],
               IF is_ok(res[i]) THEN GetMisuse(res[i]) ELSE {})
\* err() const& / err() &, lines 316-329
CallErr(i) ==
    /\ Ready /\ Constructed(i)
    /\ Observe([NoRet EXCEPT !.op = "err", !.i = i, !.has = ErrOpt(res[i]).has, !.x = ErrOpt(res[i]).x],
               IF is_err(res[i]) THEN GetMisuse(res[i]) ELSE {})
\* err() &&, lines 330-336
CallErrRvalue(i) ==
    /\ Ready /\ Constructed(i)
    /\ Observe([NoRet EXCEPT !.op = "err_rvalue", !.i = i, !.has = ErrOpt(res[i]).has, !.x = ErrOpt(res[i]).x,
                             !.copies = IF is_err(res[i]) THEN PayloadCopies(res[i]) ELSE 0],
               IF is_err(res[i]) THEN GetMisuse(res[i]) ELSE {})

\* try_ok(), lines 350-361
CallTryOk(i) ==
    /\ Ready /\ Constructed(i)
    /\ ObserveOrTerminate([NoRet EXCEPT !.op = "try_ok", !.i = i,
                                        !.term = TryOk(res[i]).term,
                                        !.has = ~TryOk(res[i]).term,
                                        !.x = IF TryOk(res[i]).term THEN 0 ELSE TryOk(res[i]).val],
                          MsgTryOk, GetMisuse(res[i]))
\* try_err(), lines 338-349
CallTryErr(i) ==
    /\ Ready /\ Constructed(i)
    /\ ObserveOrTerminate([NoRet EXCEPT !.op = "try_err", !.i = i,
                                        !.term = TryErr(res[i]).term,
                                        !.has = ~TryErr(res[i]).term,
                                        !.x = IF TryErr(res[i]).term THEN 0 ELSE TryErr(res[i]).val],
                          MsgTryErr, GetMisuse(res[i]))

\* an unwrap() without the is_ok() test of line 364: it hands out the storage
\* whatever the discriminant says
CallUnwrapNoCheck(i, consume) ==
    /\ Ready /\ Constructed(i)
    /\ ret' = [NoRet EXCEPT !.op = "unwrap", !.i = i, !.has = TRUE,
                            !.taken = consume, !.x = StorageGet(res[i])]
    /\ NoTerminate
    /\ res' = IF consume THEN [res EXCEPT ![i] = StorageMovedFrom(res[i])] ELSE res
    /\ UNCHANGED <<ctors, dtors, misuse, TIsUnit, nontrivial>>

\* unwrap(), lines 363-368.  The T&& returned names the payload; consume says
\* whether the caller moves a T out of it (auto v = r.unwrap();)
CallUnwrap(i, consume) ==
    /\ Ready /\ Constructed(i)
    /\ ret' = [NoRet EXCEPT !.op = "unwrap", !.i = i, !.term = ~is_ok(res[i]),
                            !.has = is_ok(res[i]),
                            !.taken = consume /\ is_ok(res[i]),
                            !.x = IF is_ok(res[i]) THEN ok_unchecked(res[i]) ELSE 0]
    /\ IF ~is_ok(res[i])
       THEN Terminate(MsgUnwrap) /\ UNCHANGED <<res, misuse>>
       ELSE /\ NoTerminate
            /\ misuse' = misuse \cup GetMisuse(res[i])
            /\ res' = IF consume THEN [res EXCEPT ![i] = StorageMovedFrom(res[i])] ELSE res
    /\ UNCHANGED <<ctors, dtors, TIsUnit, nontrivial>>

\* unwrap_or(T&& value), lines 369-374.  Line 371, return value;, binds the
\* T&& return type to the lvalue value: ill-formed in C++17 (the standard
\* CMakeLists.txt line 7 selects), so a compiler either rejects the program
\* that instantiates unwrap_or (g++ does) or, accepting it, returns value
UnwrapOrOutcomes == {"running", "rejected"}
CallUnwrapOr(i, d, consume) ==
    /\ Ready /\ Constructed(i)
    /\ \E outcome \in UnwrapOrOutcomes :
         IF outcome = "rejected"
         THEN /\ status' = "rejected"
              /\ ret' = [NoRet EXCEPT !.op = "unwrap_or", !.i = i, !.v = d]
              /\ UNCHANGED <<res, misuse>>
         ELSE /\ status' = status
              /\ ret' = [NoRet EXCEPT !.op = "unwrap_or", !.i = i, !.v = d, !.has = TRUE,
                                      !.taken = consume /\ is_ok(res[i]),
                                      !.x = IF is_ok(res[i]) THEN ok_unchecked(res[i]) ELSE d]
              /\ misuse' = misuse \cup (IF is_ok(res[i]) THEN GetMisuse(res[i]) ELSE {})
              /\ res' = IF consume /\ is_ok(res[i])
                        THEN [res EXCEPT ![i] = StorageMovedFrom(res[i])] ELSE res
    /\ UNCHANGED <<ctors, dtors, diag, TIsUnit, nontrivial>>

\* T(), line 380: the value-initialised payload (0 for int, "" for a string)
DefaultT == 0

\* unwrap_or_default(), lines 375-382: on Err the T&& returned is bound to the
\* temporary T(), destroyed when the function returns; reading it is
\* undefined: the caller reads any value, or the read crashes the process
\* (g++ returns a null reference)
DanglingReads == {"running", "crashed"}
CallUnwrapOrDefault(i, consume) ==
    /\ Ready /\ Constructed(i)
    /\ \E junk \in TVals :
         ret' = [NoRet EXCEPT !.op = "unwrap_or_default", !.i = i, !.has = TRUE,
                              !.dangling = ~is_ok(res[i]),
                              !.taken = consume /\ is_ok(res[i]),
                              !.x = IF is_ok(res[i]) THEN ok_unchecked(res[i]) ELSE junk]
    /\ status' \in (IF is_ok(res[i]) THEN {status} ELSE DanglingReads)
    /\ misuse' = misuse \cup (IF is_ok(res[i]) THEN GetMisuse(res[i]) ELSE {})
    /\ res' = IF consume /\ is_ok(res[i])
              THEN [res EXCEPT ![i] = StorageMovedFrom(res[i])] ELSE res
    /\ UNCHANGED <<ctors, dtors, diag, TIsUnit, nontrivial>>

\* expect(message), lines 384-389
Messages == {"expected a value", "boom"}
CallExpect(i, message, consume) ==
    /\ Ready /\ Constructed(i)
    /\ ret' = [NoRet EXCEPT !.op = "expect", !.i = i, !.term = ~is_ok(res[i]),
                            !.has = is_ok(res[i]), !.msg = message,
                            !.taken = consume /\ is_ok(res[i]),
                            !.x = IF is_ok(res[i]) THEN StorageGet(res[i]) ELSE 0]
    /\ IF ~is_ok(res[i])
       THEN Terminate(message) /\ UNCHANGED <<res, misuse>>
       ELSE /\ NoTerminate
            /\ misuse' = misuse \cup GetMisuse(res[i])
            /\ res' = IF consume THEN [res EXCEPT ![i] = StorageMovedFrom(res[i])] ELSE res
    /\ UNCHANGED <<ctors, dtors, TIsUnit, nontrivial>>

\* ----- combinators, lines 411-473 -----
\* the functions handed to map / map_err: identity, successor, constants
ValFns ==
    {[v \in Vals |-> v], [v \in Vals |-> (v + 1) % (MaxVal + 1)]}
    \cup {[v \in Vals |-> c] : c \in Vals}
\* the functions handed to and_then / or_else return Ok or Err depending on
\* whether their argument is the empty value, with a payload from ValFns
ResultFns ==
    {[v \in Vals |-> [tag |-> IF v = 0 THEN k0 ELSE k1, val |-> g[v]]] :
        k0 \in {KindOk, KindErr}, k1 \in {KindOk, KindErr}, g \in ValFns}
\* a Result temporary passed by value: Result<T, E>(Ok(v)) or Result<T, E>(Err(e))
Temps == [tag : {KindOk}, val : TVals] \cup [tag : {KindErr}, val : Vals]
FromTemp(t) == IF t.tag = KindOk THEN StorageFromOk(t.val) ELSE StorageFromErr(t.val)

\* the combinators declared const (line 414): std::move(*this) is then a
\* const Result&&, the const& overloads of ok_unchecked / err_unchecked are
\* selected, and the payload is copy-constructed out of *this
ConstCombinators == {"map"}

\* a combinator called on variable i whose result initialises variable k:
\* dest is the new Result, src what is left in i, calls the invocations of
\* fn, given the operand, passed the argument fn was invoked with
Combine(op, i, k, dest, src, calls, given, passed) ==
    /\ Ready /\ Constructed(i) /\ ~Constructed(k) /\ ctors < MaxCount
    /\ res' = [res EXCEPT ![k] = dest, ![i] = src]
    /\ ctors' = ctors + CtorCalls(dest)
    /\ misuse' = misuse \cup GetMisuse(res[i])
    /\ ret' = [NoRet EXCEPT !.op = op, !.i = i, !.j = k, !.calls = calls,
                            !.src = [tag |-> kind(res[i]), val |-> StorageGet(res[i])],
                            !.given = given, !.passed = passed,
                            !.copies = IF op \in ConstCombinators
                                       THEN PayloadCopies(res[i]) ELSE 0]
    /\ UNCHANGED <<dtors, status, diag, TIsUnit, nontrivial>>

\* what map_fn returns for the payload of r, as an operand record
FnValue(f, r) == [tag |-> "value", val |-> f[StorageGet(r)]]

\* what an rvalue handed to fn leaves behind: fn's parameter is taken by value
\* (moved into) or by reference (left alone)
AfterCall(r, byValue) == IF byValue THEN StorageMovedFrom(r) ELSE r

\* a map that applies map_fn to whichever payload is stored
MapAnyKind(i, k, f) ==
    IF is_ok(res[i])
    THEN Combine("map", i, k, StorageFromOk(f[ok_unchecked(res[i])]), res[i], 1,
                 FnValue(f, res[i]), ok_unchecked(res[i]))
    ELSE Combine("map", i, k, StorageFromErr(f[err_unchecked(res[i])]), res[i], 1,
                 FnValue(f, res[i]), err_unchecked(res[i]))

\* map(F&&) const, lines 411-420: *this is const, so ok_unchecked() const& /
\* err_unchecked() const& are chosen and the payload is copied, not moved
Map(i, k, f) ==
    IF is_ok(res[i])
    THEN Combine("map", i, k, StorageFromOk(f[ok_unchecked(res[i])]), res[i], 1,
                 FnValue(f, res[i]), ok_unchecked(res[i]))
    ELSE Combine("map", i, k, StorageFromErr(err_unchecked(res[i])), res[i], 0,
                 FnValue(f, res[i]), 0)

\* a map_err that wraps the mapped value as Ok on the success path
MapErrAnyKind(i, k, f, byValue) ==
    IF is_ok(res[i])
    THEN Combine("map_err", i, k, StorageFromOk(f[ok_unchecked(res[i])]),
                 AfterCall(res[i], byValue), 1, FnValue(f, res[i]), ok_unchecked(res[i]))
    ELSE Combine("map_err", i, k, StorageFromErr(f[err_unchecked(res[i])]),
                 AfterCall(res[i], byValue), 1, FnValue(f, res[i]), err_unchecked(res[i]))

\* map_err(F&&), lines 422-431
MapErr(i, k, f, byValue) ==
    IF is_ok(res[i])
    THEN Combine("map_err", i, k, StorageFromOk(ok_unchecked(res[i])),
                 StorageMovedFrom(res[i]), 0, FnValue(f, res[i]), 0)
    ELSE Combine("map_err", i, k, StorageFromErr(f[err_unchecked(res[i])]),
                 AfterCall(res[i], byValue), 1, FnValue(f, res[i]), err_unchecked(res[i]))

\* an and_ that returns other whatever *this holds
AndIgnoresSelf(i, k, other) ==
    Combine("and_", i, k, StorageCopy(FromTemp(other)), res[i], 0, other, 0)

\* and_(Result<T2, E> other), lines 433-440
And(i, k, other) ==
    IF is_ok(res[i])
    THEN Combine("and_", i, k, StorageCopy(FromTemp(other)), res[i], 0, other, 0)
    ELSE Combine("and_", i, k, StorageFromErr(err_unchecked(res[i])),
                 StorageMovedFrom(res[i]), 0, other, 0)

\* an and_then that calls fn before looking at the discriminant
AndThenEager(i, k, fn, byValue) ==
    IF is_ok(res[i])
    THEN Combine("and_then", i, k, FromTemp(fn[ok_unchecked(res[i])]),
                 AfterCall(res[i], byValue), 1, fn[StorageGet(res[i])], ok_unchecked(res[i]))
    ELSE Combine("and_then", i, k, StorageFromErr(err_unchecked(res[i])),
                 StorageMovedFrom(res[i]), 1, fn[StorageGet(res[i])], err_unchecked(res[i]))

\* and_then(F&&), lines 442-452
AndThen(i, k, fn, byValue) ==
    IF is_ok(res[i])
    THEN Combine("and_then", i, k, FromTemp(fn[ok_unchecked(res[i])]),
                 AfterCall(res[i], byValue), 1, fn[StorageGet(res[i])], ok_unchecked(res[i]))
    ELSE Combine("and_then", i, k, StorageFromErr(err_unchecked(res[i])),
                 StorageMovedFrom(res[i]), 0, fn[StorageGet(res[i])], 0)

\* an or_ that returns other whatever *this holds
OrIgnoresSelf(i, k, other) ==
    Combine("or_", i, k, StorageCopy(FromTemp(other)), res[i], 0, other, 0)

\* or_(Result<T, E2> other), lines 454-461
Or(i, k, other) ==
    IF is_err(res[i])
    THEN Combine("or_", i, k, StorageCopy(FromTemp(other)), res[i], 0, other, 0)
    ELSE Combine("or_", i, k, StorageFromOk(ok_unchecked(res[i])),
                 StorageMovedFrom(res[i]), 0, other, 0)

\* an or_else that returns what fn returns for the success payload too
OrElseAnyKind(i, k, fn, byValue) ==
    Combine("or_else", i, k, FromTemp(fn[StorageGet(res[i])]),
            AfterCall(res[i], byValue), 1, fn[StorageGet(res[i])], StorageGet(res[i]))

\* or_else(F&&), lines 463-473
OrElse(i, k, fn, byValue) ==
    IF is_err(res[i])
    THEN Combine("or_else", i, k, FromTemp(fn[err_unchecked(res[i])]),
                 AfterCall(res[i], byValue), 1, fn[StorageGet(res[i])], err_unchecked(res[i]))
    ELSE Combine("or_else", i, k, StorageFromOk(ok_unchecked(res[i])),
                 StorageMovedFrom(res[i]), 0, fn[StorageGet(res[i])], 0)

\* the caller's full-expression ends: the returned temporary is dropped
EndStatement ==
    /\ Running /\ ret # NoRet
    /\ ret' = NoRet
    /\ UNCHANGED <<res, ctors, dtors, misuse, status, diag, TIsUnit, nontrivial>>

\* ----- the program's steps, grouped by the part of the class they exercise -----
\* construction and destruction of Result variables
NextBuild ==
    \/ \E i \in Slots, v \in TVals : ConstructOk(i, v)
    \/ \E i \in Slots, e \in Vals : ConstructErr(i, e)
    \/ \E i \in Slots : Destroy(i)
    \/ EndStatement

\* copy and move construction
NextCopy ==
    \/ \E i, j \in Slots : CopyConstruct(i, j)
    \/ \E i, j \in Slots : MoveConstruct(i, j)

\* copy and move assignment
NextAssign ==
    \/ \E i, j \in Slots : CopyAssign(i, j)
    \/ \E i, j \in Slots : MoveAssign(i, j)

\* state queries and comparison operators
NextCompare ==
    \/ \E i \in Slots, o \in Operands : CallEq(i, o)
    \/ \E i \in Slots, o \in Operands : CallNe(i, o)
    \/ \E i \in Slots, o \in Operands : CallLt(i, o)
    \/ \E i \in Slots, o \in Operands : CallLe(i, o)
    \/ \E i \in Slots, o \in Operands : CallGt(i, o)
    \/ \E i \in Slots, o \in Operands : CallGe(i, o)
    \/ \E i \in Slots : CallIsOk(i)
    \/ \E i \in Slots : CallIsErr(i)
    \/ \E i \in Slots : CallBool(i)

\* accessors
NextAccess ==
    \/ \E i \in Slots : CallOk(i)
    \/ \E i \in Slots : CallOkRvalue(i)
    \/ \E i \in Slots : CallErr(i)
    \/ \E i \in Slots : CallErrRvalue(i)
    \/ \E i \in Slots : CallTryOk(i)
    \/ \E i \in Slots : CallTryErr(i)
    \/ \E i \in Slots, c \in BOOLEAN : CallUnwrap(i, c)
    \/ \E i \in Slots, d \in TVals, c \in BOOLEAN : CallUnwrapOr(i, d, c)
    \/ \E i \in Slots, c \in BOOLEAN : CallUnwrapOrDefault(i, c)
    \/ \E i \in Slots, m \in Messages, c \in BOOLEAN : CallExpect(i, m, c)

\* combinators
NextCombine ==
    \/ \E i, k \in Slots, f \in ValFns : Map(i, k, f)
    \/ \E i, k \in Slots, f \in ValFns, bv \in BOOLEAN : MapErr(i, k, f, bv)
    \/ \E i, k \in Slots, t \in Temps : And(i, k, t)
    \/ \E i, k \in Slots, fn \in ResultFns, bv \in BOOLEAN : AndThen(i, k, fn, bv)
    \/ \E i, k \in Slots, t \in Temps : Or(i, k, t)
    \/ \E i, k \in Slots, fn \in ResultFns, bv \in BOOLEAN : OrElse(i, k, fn, bv)

NextDefault == \E i \in Slots : DefaultConstruct(i)

Next ==
    \/ NextBuild \/ NextCopy \/ NextAssign \/ NextCompare \/ NextAccess \/ NextCombine
    \/ NextDefault

\* every operation of the class
Spec == Init /\ [][Next]_vars

\* programs that build, copy, move, transform and destroy Results
SpecCore == Init /\ [][NextBuild \/ NextCopy \/ NextCombine]_vars

\* the same, with assignment
SpecLife == Init /\ [][NextBuild \/ NextCopy \/ NextAssign \/ NextCombine]_vars

\* programs that build Results and compare them
SpecCompare == Init /\ [][NextBuild \/ NextCompare]_vars

\* programs that build Results and read them through the accessors
SpecAccess == Init /\ [][NextBuild \/ NextCopy \/ NextAccess]_vars

\* ======================= properties =======================

Combinators == {"map", "map_err", "and_", "and_then", "or_", "or_else"}

\* C1 (as stated): every constructed Result holds exactly one live payload,
\* the one its discriminant names.
C1_ExactlyOneAlive ==
    \A i \in Slots : Constructed(i) => res[i].live = TagType(res[i])

\* C1 (amended): after any construction, copy, move or combinator call the
\* only payload alive in a Result is the one its discriminant names, and it
\* is alive, except that the Ok alternative of Result<unit_t, E> is never
\* constructed, so an Ok Result<unit_t, E> holds no payload object at all.
C1_OneAliveUnlessUnit ==
    \A i \in Slots : Constructed(i) =>
        IF is_ok(res[i]) /\ TIsUnit THEN res[i].live = "none"
        ELSE res[i].live = TagType(res[i])

\* a combinator has produced an Err Result from an Err Result, both alive
C1_Witness ==
    /\ ret.op \in Combinators
    /\ res[ret.i].live = "E" /\ res[ret.j].live = "E"
    /\ \E i \in Slots : Constructed(i) /\ i # ret.j /\ is_err(res[i])

\* payload objects alive in Result storage
LiveCount == Cardinality({i \in Slots : res[i].live # "none"})

\* C2: at every point payload constructions minus payload destructions
\* equals the number of live payload instances.
C2_ConstructionsMinusDestructions == ctors - dtors = LiveCount

\* C3: a Result built from Ok(v) answers is_ok() with true, is_err() with
\* false and converts to true; one built from Err(v) answers is_err() with
\* true, is_ok() with false and converts to false; also for Ok() of unit_t.
C3_QueriesMatchConstruction ==
    ret.op \in {"is_ok", "is_err", "bool"} =>
        /\ (\E v \in TVals : res[ret.i] = StorageFromOk(v)) => ret.b = (ret.op # "is_err")
        /\ (\E e \in Vals : res[ret.i] = StorageFromErr(e)) => ret.b = (ret.op = "is_err")
        /\ status = "running"

\* is_err() was called on a Result<unit_t, E> built from Ok() and said false
C3_Witness ==
    /\ ret.op = "is_err" /\ ~ret.b /\ TIsUnit
    /\ res[ret.i] = StorageFromOk(0)

\* both Ok with equal payloads, or both Err with equal payloads
SameAlternativeAndPayload(a, b) == a.tag = b.tag /\ a.val = b.val

\* C4: a == b iff both are Ok with equal payloads or both are Err with equal
\* payloads; == is reflexive and symmetric and != is its negation.
C4_ResultEquality ==
    /\ (ret.op \in {"eq", "ne"} /\ ret.form = "result") =>
          ret.b = ((ret.op = "eq") = SameAlternativeAndPayload(res[ret.i], res[ret.j]))
    /\ \A i, j \in Slots : (Constructed(i) /\ Constructed(j)) =>
          /\ EqResult(res[i], res[i])
          /\ EqResult(res[i], res[j]) = EqResult(res[j], res[i])
          /\ NeResult(res[i], res[j]) = ~EqResult(res[i], res[j])

\* an Ok and an Err with the same payload value were compared and are unequal
C4_Witness ==
    /\ ret.op = "eq" /\ ret.form = "result" /\ ~ret.b
    /\ is_ok(res[ret.i]) /\ is_err(res[ret.j])
    /\ res[ret.i].val = res[ret.j].val /\ ~TIsUnit

\* C5: r == Ok(v) iff r is Ok and its payload equals v (for unit_t: iff r is
\* Ok); r == Err(e) iff r is Err and its payload equals e.
C5_WrapperEquality ==
    /\ (ret.op = "eq" /\ ret.form = "ok") =>
          ret.b = (is_ok(res[ret.i]) /\ (TIsUnit \/ res[ret.i].val = ret.v))
    /\ (ret.op = "eq" /\ ret.form = "err") =>
          ret.b = (is_err(res[ret.i]) /\ res[ret.i].val = ret.v)

\* the ordering the specification describes: failure before success,
\* successes by payload, two failures not less
SpecLess(a, b) ==
    IF is_err(a) THEN is_ok(b)
    ELSE is_ok(b) /\ a.val < b.val

\* C6: under operator< any failure is less than any success, no success is
\* less than a failure, two successes order by payload and two failures are
\* not less; for Result and wrapper operands alike.
C6_LessThan ==
    ret.op = "lt" =>
        /\ ~ret.term
        /\ ret.b = SpecLess(res[ret.i],
                            OperandResult([form |-> ret.form, j |-> ret.j, v |-> ret.v]))

\* C7: errors are placed at the end: for an Ok a and an Err b, a < b holds
\* and b < a does not.
C7_ErrorsAtTheEnd ==
    (ret.op = "lt" /\ ret.form = "result") =>
        /\ (is_ok(res[ret.i]) /\ is_err(res[ret.j])) => (~ret.term /\ ret.b)
        /\ (is_err(res[ret.i]) /\ is_ok(res[ret.j])) => (~ret.term /\ ~ret.b)

\* C8: the process terminates only in try_ok, try_err, unwrap or expect
\* called on a Result of the other kind; every other operation returns.
C8_TerminationOnlyByAccessors ==
    /\ status = "terminated" => ret.op \in {"try_ok", "try_err", "unwrap", "expect"}
    /\ ret.term => ret.op \in {"try_ok", "try_err", "unwrap", "expect"}

\* C9 (state part): ok() holds the success payload iff the Result is Ok and
\* is empty iff it is Err; err() holds the failure payload iff the Result is
\* Err and is empty iff it is Ok; neither terminates.
C9_OptionalMatchesKind ==
    /\ ret.op \in {"ok", "ok_rvalue"} =>
          /\ ret.has = is_ok(res[ret.i])
          /\ ret.has => ret.x = res[ret.i].val
          /\ ~ret.term /\ status = "running"
    /\ ret.op \in {"err", "err_rvalue"} =>
          /\ ret.has = is_err(res[ret.i])
          /\ ret.has => ret.x = res[ret.i].val
          /\ ~ret.term /\ status = "running"

\* C9: ok() and err() return the matching optional and never terminate, and
\* the lvalue overloads leave every Result's discriminant and payload as
\* they were.
C9_OkErrAccessors ==
    /\ []C9_OptionalMatchesKind
    /\ [][(ret.op = "none" /\ ret'.op \in {"ok", "err"}) => res' = res]_vars

\* ok() found a payload in an Ok Result and err() would find none
C9_Witness ==
    /\ ret.op = "ok" /\ ret.has /\ ret.x = MaxVal
    /\ ErrOpt(res[ret.i]).has = FALSE

\* C10 (state part): try_ok() returns the success payload of an Ok Result
\* and terminates on an Err Result; try_err() returns the failure payload
\* of an Err Result and terminates on an Ok Result.
C10_TryReturnsOrTerminates ==
    /\ ret.op = "try_ok" =>
          /\ ret.term = ~is_ok(res[ret.i])
          /\ ret.term => (status = "terminated" /\ diag = MsgTryOk)
          /\ ~ret.term => (status = "running" /\ ret.x = res[ret.i].val)
    /\ ret.op = "try_err" =>
          /\ ret.term = ~is_err(res[ret.i])
          /\ ret.term => (status = "terminated" /\ diag = MsgTryErr)
          /\ ~ret.term => (status = "running" /\ ret.x = res[ret.i].val)
          /\ \A e \in Vals : (res[ret.i] = StorageFromErr(e)) => ret.x = e

\* C10: try_ok() / try_err() return a reference to the matching payload or
\* terminate the process, and on the returning path the Result is unchanged,
\* so Result(Err(e)).try_err() == e.
C10_TryAccessors ==
    /\ []C10_TryReturnsOrTerminates
    /\ [][(ret.op = "none" /\ ret'.op \in {"try_ok", "try_err"}) => res' = res]_vars

\* try_ok() was called on an Err Result and the process terminated
C10_Witness ==
    /\ ret.op = "try_ok" /\ ret.term /\ is_err(res[ret.i])
    /\ status = "terminated" /\ diag = MsgTryOk

\* C11 (state part): after unwrap() the Result is terminated-on exactly when
\* it is Err, with the unwrap diagnostic; on an Ok Result the caller holds
\* the payload, the discriminant is still Ok, the payload is still a live
\* object, and it is in the moved-from state once the caller has taken the
\* value out of the returned rvalue reference.
C11_UnwrapOutcome ==
    ret.op = "unwrap" =>
       /\ ret.term = ~is_ok(res[ret.i])
       /\ ret.term => (status = "terminated" /\ diag = MsgUnwrap /\ ~ret.has)
       /\ ~ret.term =>
             /\ status = "running" /\ ret.has
             /\ kind(res[ret.i]) = KindOk
             /\ GetIsLive(res[ret.i], "T") = ~TIsUnit
             /\ res[ret.i].val = IF ret.taken THEN MovedFromVal(ret.x) ELSE ret.x

C12_UnwrapOr ==
    [][(ret.op = "none" /\ ret'.op = "unwrap_or") =>
          /\ ret'.has /\ status' = "running"
          /\ is_ok(res[ret'.i]) => ret'.x = ok_unchecked(res[ret'.i])
          /\ is_err(res[ret'.i]) => ret'.x = ret'.v]_vars

\* C13: unwrap_or_default() hands the caller the success payload of an Ok
\* Result and, for an Err Result, a value equal to a default-constructed T
\* read from an object that is still alive; the process keeps running.
C13_UnwrapOrDefault ==
    [][(ret.op = "none" /\ ret'.op = "unwrap_or_default") =>
          /\ ret'.has /\ status' = "running"
          /\ is_ok(res[ret'.i]) => ret'.x = ok_unchecked(res[ret'.i])
          /\ is_err(res[ret'.i]) => (ret'.x = DefaultT /\ ~ret'.dangling)]_vars

\* the diagnostic the accessor named by a returned record passes to
\* details::terminate
DiagnosticOf(r) ==
    CASE r.op = "try_ok" -> MsgTryOk
      [] r.op = "try_err" -> MsgTryErr
      [] r.op = "unwrap" -> MsgUnwrap
      [] r.op = "expect" -> r.msg
      [] OTHER -> ""

\* C14 (state part): a stopped process was stopped by a misused accessor,
\* whose diagnostic is already written (the accessor's own message, or
\* exactly the caller's message for expect) and which returned nothing;
\* a running process has written no diagnostic.
C14_DiagnosticWritten ==
    /\ status = "terminated" =>
          /\ ret.op \in {"try_ok", "try_err", "unwrap", "expect"}
          /\ ret.term /\ ~ret.has
          /\ diag = DiagnosticOf(ret) /\ diag # ""
    /\ status = "running" => diag = ""
    /\ ret.op \in {"try_ok", "try_err", "unwrap", "expect"} =>
          (ret.term <=> status = "terminated")

\* C14: on a contract violation the diagnostic is written by the time the
\* process has stopped, the violating call returns nothing and no step is
\* taken afterwards; expect(message) on an Ok Result returns the success
\* payload and writes nothing.
C14_TerminateProtocol ==
    /\ []C14_DiagnosticWritten
    /\ [][status = "running"]_vars
    /\ [][(ret.op = "none" /\ ret'.op = "expect" /\ is_ok(res[ret'.i])) =>
            /\ ret'.has /\ ret'.x = ok_unchecked(res[ret'.i])
            /\ diag' = diag /\ status' = "running"]_vars

\* expect("boom") was called on an Err Result: the process is stopped and
\* the diagnostic is the caller's message
C14_Witness ==
    /\ ret.op = "expect" /\ ret.msg = "boom" /\ is_err(res[ret.i])
    /\ status = "terminated" /\ diag = "boom" /\ ~ret.has

\* C15: map(fn) on a Result holding Ok v yields Ok holding fn(v), with fn
\* invoked exactly once, on v; on a Result holding Err e it yields Err e
\* and fn is never invoked.
C15_Map ==
    ret.op = "map" =>
       /\ ret.src.tag = KindOk =>
             /\ res[ret.j] = StorageFromOk(ret.given.val)
             /\ ret.calls = 1 /\ ret.passed = ret.src.val
       /\ ret.src.tag = KindErr =>
             /\ res[ret.j] = StorageFromErr(ret.src.val)
             /\ ret.calls = 0

\* map(fn) on Ok 0 yielded Ok MaxVal: fn was applied and changed the payload
C15_Witness ==
    /\ ret.op = "map" /\ ret.src = [tag |-> KindOk, val |-> 0]
    /\ res[ret.j] = StorageFromOk(MaxVal) /\ ~TIsUnit /\ ret.calls = 1

\* C16: map_err(fn) on a Result holding Err e yields Err holding fn(e),
\* with fn invoked exactly once, on e; on a Result holding Ok v it yields
\* Ok v and fn is never invoked.
C16_MapErr ==
    ret.op = "map_err" =>
       /\ ret.src.tag = KindErr =>
             /\ res[ret.j] = StorageFromErr(ret.given.val)
             /\ ret.calls = 1 /\ ret.passed = ret.src.val
       /\ ret.src.tag = KindOk =>
             /\ res[ret.j] = StorageFromOk(ret.src.val)
             /\ ret.calls = 0

\* map_err(fn) on Err MaxVal yielded Err 0: fn was applied
C16_Witness ==
    /\ ret.op = "map_err" /\ ret.src = [tag |-> KindErr, val |-> MaxVal]
    /\ res[ret.j] = StorageFromErr(0) /\ ret.calls = 1

\* C17: a.and_(b) is b as it was passed when a is Ok and Err holding a's
\* failure when a is Err; so it is Ok exactly when both a and b are Ok,
\* and otherwise holds the first failure met.
C17_And ==
    ret.op = "and_" =>
       /\ ret.src.tag = KindOk => res[ret.j] = FromTemp(ret.given)
       /\ ret.src.tag = KindErr => res[ret.j] = StorageFromErr(ret.src.val)
       /\ is_ok(res[ret.j]) <=> (ret.src.tag = KindOk /\ ret.given.tag = KindOk)
       /\ is_err(res[ret.j]) =>
             StorageGet(res[ret.j]) =
                IF ret.src.tag = KindErr THEN ret.src.val ELSE ret.given.val

\* an Err a met an Ok b, and a.and_(b) is Err holding a's payload
C17_Witness ==
    /\ ret.op = "and_" /\ ret.src = [tag |-> KindErr, val |-> MaxVal]
    /\ ret.given = [tag |-> KindOk, val |-> 0]
    /\ res[ret.j] = StorageFromErr(MaxVal)

\* C18: and_then(fn) on an Err Result never invokes fn and yields Err with
\* the same payload; on a Result holding Ok v it invokes fn exactly once,
\* with v, and yields the Result fn returned.
C18_AndThen ==
    ret.op = "and_then" =>
       /\ ret.src.tag = KindErr =>
             /\ ret.calls = 0
             /\ res[ret.j] = StorageFromErr(ret.src.val)
       /\ ret.src.tag = KindOk =>
             /\ ret.calls = 1 /\ ret.passed = ret.src.val
             /\ res[ret.j] = FromTemp(ret.given)

\* and_then(fn) on an Ok Result yielded the Err that fn returned
C18_Witness ==
    /\ ret.op = "and_then" /\ ret.src.tag = KindOk /\ ret.calls = 1
    /\ ret.given = [tag |-> KindErr, val |-> MaxVal]
    /\ res[ret.j] = StorageFromErr(MaxVal)

\* C19: a.or_(b) is b as it was passed when a is Err and Ok holding a's
\* success payload when a is Ok.
C19_Or ==
    ret.op = "or_" =>
       /\ ret.src.tag = KindErr => res[ret.j] = FromTemp(ret.given)
       /\ ret.src.tag = KindOk => res[ret.j] = StorageFromOk(ret.src.val)

\* an Err a met an Err b, and a.or_(b) is Err holding b's payload
C19_Witness ==
    /\ ret.op = "or_" /\ ret.src = [tag |-> KindErr, val |-> 0]
    /\ ret.given = [tag |-> KindErr, val |-> MaxVal]
    /\ res[ret.j] = StorageFromErr(MaxVal)

\* C20: or_else(fn) on an Ok Result never invokes fn and yields Ok with the
\* same payload; on a Result holding Err e it invokes fn exactly once, with
\* e, and yields the Result fn returned.
C20_OrElse ==
    ret.op = "or_else" =>
       /\ ret.src.tag = KindOk =>
             /\ ret.calls = 0
             /\ res[ret.j] = StorageFromOk(ret.src.val)
       /\ ret.src.tag = KindErr =>
             /\ ret.calls = 1 /\ ret.passed = ret.src.val
             /\ res[ret.j] = FromTemp(ret.given)

\* or_else(fn) on an Err Result yielded the Ok that fn returned
C20_Witness ==
    /\ ret.op = "or_else" /\ ret.src = [tag |-> KindErr, val |-> MaxVal]
    /\ ret.calls = 1 /\ ret.given.tag = KindOk
    /\ res[ret.j] = FromTemp(ret.given) /\ is_ok(res[ret.j])

\* a step that consumes, moves out of or destroys the Result in variable b
UsesUp(b) ==
    \/ Destroy(b)
    \/ \E k \in Slots : MoveConstruct(k, b)
    \/ CallUnwrap(b, TRUE) \/ CallOkRvalue(b) \/ CallErrRvalue(b)
    \/ \E m \in Messages : CallExpect(b, m, TRUE)

\* C21: copy-constructing b from a (or b = a.clone()) gives b == a, leaves
\* a's discriminant and payload as they were, and constructs b's own payload
\* inside b; any later consumption, move-out or destruction of b leaves a's
\* discriminant and payload unchanged.
C21_CopyIndependence ==
    [][\A a, b \in Slots :
          /\ CopyConstruct(b, a) =>
                /\ EqResult(res'[b], res'[a])
                /\ res'[a] = res[a]
                /\ kind(res'[b]) = kind(res[a])
                /\ res'[b].live = res[a].live
                /\ ctors' = ctors + CtorCalls(res[a])
          /\ (a # b /\ UsesUp(b) /\ ~(\E k \in Slots : MoveConstruct(a, k))) =>
                res'[a] = res[a]]_vars

\* b was copied from a holding Ok MaxVal and then consumed by unwrap(): b is
\* left moved-from while a still holds Ok MaxVal
C21_Witness ==
    /\ nontrivial /\ ~TIsUnit /\ ctors = 2 /\ dtors = 0
    /\ res[1] = StorageFromOk(MaxVal)
    /\ ret.op = "unwrap" /\ ret.i = 2 /\ ret.taken /\ ret.x = MaxVal
    /\ res[2] = StorageMovedFrom(StorageFromOk(MaxVal))

\* C22: move-constructing b from a gives b a's discriminant and a payload
\* equal to a's original payload; a keeps its discriminant, its payload is
\* left in the moved-from state (a non-trivially movable, non-empty payload
\* no longer compares equal to the original), and a is still a constructed
\* Result whose payload its destructor destroys exactly once.
C22_MoveConstruct ==
    [][\A a, b \in Slots :
          MoveConstruct(b, a) =>
             /\ kind(res'[b]) = kind(res[a])
             /\ EqResult(res'[b], res[a])
             /\ res'[b].live = res[a].live
             /\ kind(res'[a]) = kind(res[a])
             /\ res'[a] = StorageMovedFrom(res[a])
             /\ (nontrivial /\ res[a].live # "none" /\ StorageGet(res[a]) # DefaultT)
                    => ~EqResult(res'[a], res[a])
             /\ Constructed(a)' /\ res'[a].live = res[a].live
             /\ DtorCalls(res'[a]) = DtorCalls(res[a])
             /\ DestroyMisuse(res'[a]) = DestroyMisuse(res[a])
             /\ dtors' = dtors]_vars

\* a held Ok MaxVal of a non-trivially movable T and was moved into b: a is
\* still Ok, with an emptied payload that is still alive
C22_Witness ==
    /\ nontrivial /\ ~TIsUnit /\ ctors = 2 /\ dtors = 0 /\ ret = NoRet
    /\ res[2] = StorageFromOk(MaxVal)
    /\ res[1] = StorageMovedFrom(StorageFromOk(MaxVal))
    /\ is_ok(res[1]) /\ ~EqResult(res[1], res[2])

\* the members said to move the payload out of the original Result
MovingMembers ==
    Combinators \cup {"unwrap", "unwrap_or", "expect", "ok_rvalue", "err_rvalue"}

\* C23: every combinator, unwrap, unwrap_or, expect and the rvalue overloads
\* of ok() / err() perform zero payload copy-constructions.
C23_OnlyCloneCopies ==
    ret.op \in MovingMembers => ret.copies = 0

\* C24: a default-constructed Result<T, E> is Ok and holds a live payload
\* equal to a default-constructed T, the one payload alive in it, and the
\* program goes on running.
C24_DefaultConstructed ==
    ret.op = "Result" =>
       /\ status = "running"
       /\ is_ok(res[ret.i])
       /\ StorageGet(res[ret.i]) = DefaultT
       /\ TIsUnit \/ GetIsLive(res[ret.i], "T")

\* C25: after a = b (copy or move assignment, a and b distinct Results of
\* any of the four Ok/Err combinations) the call has returned, a has b's
\* discriminant and a live payload equal to b's original payload, a's old
\* payload was destroyed exactly once, and no operation was performed on a
\* payload object that is not alive.
C25_AssignReconstructs ==
    [][\A a, b \in Slots :
          (a # b /\ (CopyAssign(a, b) \/ MoveAssign(a, b))) =>
             /\ status' = "running"
             /\ kind(res'[a]) = kind(res[b])
             /\ StorageGet(res'[a]) = StorageGet(res[b])
             /\ res'[a].live = res[b].live
             /\ dtors' = dtors + DtorCalls(res[a])
             /\ misuse' = misuse]_vars

\* C28: after a = a (copy assignment of a Result to itself) the call has
\* returned and a has the discriminant and the live payload, of equal value,
\* that it had before.
C28_SelfAssignment ==
    [][\A a \in Slots :
          CopyAssign(a, a) =>
             /\ status' = "running"
             /\ kind(res'[a]) = kind(res[a])
             /\ StorageGet(res'[a]) = StorageGet(res[a])
             /\ res'[a].live = res[a].live]_vars

\* C26: no operation of the facade reads the storage through get<U> for a U
\* that is not the payload alive in it.
C26_NoWrongAlternativeRead ==
    "get" \notin misuse

\* C27: for two Results a and b, a <= b holds iff a < b or a == b, a > b
\* holds iff b < a, a >= b holds iff b <= a, every one of these comparisons
\* returns, and a <= b together with b <= a implies a == b.
C27_OrderingConsistent ==
    (ret.op \in {"le", "gt", "ge"} /\ ret.form = "result") =>
       LET a == res[ret.i]
           b == res[ret.j]
       IN /\ ~ret.term
          /\ ~Lt(a, b).term /\ ~Lt(b, a).term /\ ~Le(b, a).term
          /\ ret.op = "le" =>
                /\ ret.b <=> (Lt(a, b).b \/ EqResult(a, b))
                /\ (ret.b /\ Le(b, a).b) => EqResult(a, b)
          /\ ret.op = "gt" => (ret.b <=> Lt(b, a).b)
          /\ ret.op = "ge" => (ret.b <=> Le(b, a).b)

====
